---------------------------- MODULE Spec2Model ----------------------------
(***************************************************************************)
(* Model of the two example scripts of consultar-io/api:                   *)
(*   src/python/cnpj.py  (CNPJAPI.consultar, format_cnpj_info, main)       *)
(*   src/python/cpf.py   (CPFAPI.consultar, main)                          *)
(*                                                                         *)
(* One run of a script is one behaviour: main calls the client's           *)
(* consultar, then formats and prints the result, and an exception raised  *)
(* on the way is either taken by one of main's two except clauses or       *)
(* leaves main and ends the process with a traceback.  The remote server   *)
(* and the network are the environment: Init draws what the single GET of  *)
(* the run meets (a network failure, or a response with a status and a     *)
(* body).                                                                  *)
(***************************************************************************)
EXTENDS Naturals, Sequences, FiniteSets, TLC

VARIABLES
    script,     \* which script runs: "cnpj" or "cpf"
    net,        \* what the GET of this run meets (environment)
    pc,         \* position in main: "main", "returned", "raised", "done", "crashed"
    request,    \* the request consultar built (endpoint, headers, params)
    path,       \* code points executed so far, in order
    resultado,  \* the value consultar returned to main
    exc,        \* the exception in flight
    output,     \* the lines printed on the standard output, in order
    traceback   \* the exception that left main (the interpreter's raw diagnostic)

vars == <<script, net, pc, request, path, resultado, exc, output, traceback>>

-----------------------------------------------------------------------------
(* Bounds of the model.                                                    *)

\* longest secondary-activity list (lista_cnae_secundarios) a body carries
MaxCnae == 2
\* longest ownership list (lista_qsa) a body carries
MaxQsa == 2

-----------------------------------------------------------------------------
(* JSON values.  Every value has the same shape, so that values of         *)
(* different JSON types can be compared: t is the type, s the text of a    *)
(* string, l the elements of a list (each element an object, given as the  *)
(* sequence of its members).                                               *)

JNull == [t |-> "null", s |-> "", l |-> <<>>]
JStr(x) == [t |-> "str", s |-> x, l |-> <<>>]
JList(es) == [t |-> "list", s |-> "", l |-> es]

\* Python truthiness of a decoded value: None, "" and [] are falsy.
Truthy(v) ==
    CASE v.t = "null" -> FALSE
      [] v.t = "str"  -> v.s # ""
      [] v.t = "list" -> v.l # <<>>

\* What an f-string prints for a value: str(None) is "None".
Str(v) ==
    CASE v.t = "null" -> "None"
      [] v.t = "str"  -> v.s
      [] v.t = "list" -> IF v.l = <<>> THEN "[]" ELSE "[...]"

-----------------------------------------------------------------------------
(* Python dicts, as json decoding builds them.  A dict is the sequence of  *)
(* its <<key, value>> items in insertion order, keys unique.               *)

Keys(d) == {d[i][1] : i \in 1..Len(d)}
HasKey(d, k) == k \in Keys(d)
Get(d, k) == d[CHOOSE i \in 1..Len(d) : d[i][1] = k][2]

\* The dict json decoding builds from an object's members by d[name] = value
\* for each member, left to right: a key stands where its name first occurs
\* and holds the value of the name's last occurrence.
DictFromPairs(members) ==
    LET n == Len(members)
        \* the members that insert a new key
        first == {i \in 1..n : \A j \in 1..(i - 1) : members[j][1] # members[i][1]}
        \* the member whose value key k holds in the end
        last(k) == CHOOSE i \in 1..n :
                       /\ members[i][1] = k
                       /\ \A j \in (i + 1)..n : members[j][1] # k
        \* the member that inserts the p-th key
        place(p) == CHOOSE i \in first : Cardinality({j \in first : j < i}) = p - 1
    IN  [p \in 1..Cardinality(first) |->
            <<members[place(p)][1], members[last(members[place(p)][1])][2]>>]

\* Decoding of one member value: the objects inside a list are dicts too.
DecodeValue(v) ==
    IF v.t = "list"
    THEN JList([i \in 1..Len(v.l) |-> DictFromPairs(v.l[i])])
    ELSE v

-----------------------------------------------------------------------------
(* Exceptions.  cls is the class raised, msg is str(e), response the       *)
(* response an HTTPError carries.                                          *)

NoBody == [wf |-> FALSE, obj |-> FALSE, members |-> <<>>]
NoResponse == [status |-> 0, body |-> NoBody]
NoExc == [cls |-> "", msg |-> "", response |-> NoResponse]
Exc(cls, msg) == [cls |-> cls, msg |-> msg, response |-> NoResponse]

\* The classes an exception of class cls is an instance of.
Bases(cls) ==
    CASE cls = "ValueError"           -> {"ValueError", "Exception"}
      [] cls = "KeyError"             -> {"KeyError", "LookupError", "Exception"}
      [] cls = "TypeError"            -> {"TypeError", "Exception"}
      [] cls = "UnboundLocalError"    -> {"UnboundLocalError", "NameError", "Exception"}
      [] cls = "JSONDecodeError"      -> {"JSONDecodeError", "InvalidJSONError",
                                          "RequestException", "ValueError", "Exception"}
      [] cls = "HTTPError"            -> {"HTTPError", "RequestException", "OSError", "Exception"}
      [] cls = "ConnectionError"      -> {"ConnectionError", "RequestException", "OSError", "Exception"}
      [] cls = "SSLError"             -> {"SSLError", "ConnectionError", "RequestException",
                                          "OSError", "Exception"}
      [] cls = "ConnectTimeout"       -> {"ConnectTimeout", "ConnectionError", "Timeout",
                                          "RequestException", "OSError", "Exception"}
      [] cls = "ReadTimeout"          -> {"ReadTimeout", "Timeout", "RequestException",
                                          "OSError", "Exception"}
      [] cls = "ChunkedEncodingError" -> {"ChunkedEncodingError", "RequestException",
                                          "OSError", "Exception"}
      [] OTHER                        -> {cls}

IsInstance(e, cls) == e # NoExc /\ cls \in Bases(e.cls)

-----------------------------------------------------------------------------
(* The HTTP library, as far as consultar uses it.                          *)
(* A response is [status, body]; a body is the text received: wf says      *)
(* whether it is well-formed JSON, obj whether that JSON is an object, and *)
(* members are the object's name/value pairs in the order of the text.     *)

Response(status, body) == [status |-> status, body |-> body]

\* What the environment answers to the GET: a response, or a failure below HTTP.
NetResponse(status, body) ==
    [kind |-> "response", response |-> Response(status, body), exc |-> NoExc]
NetFailure(cls, msg) ==
    [kind |-> "fail", response |-> NoResponse, exc |-> Exc(cls, msg)]

\* requests.get: the exception it raises (NoExc when a response arrived).
requests_get(n) == IF n.kind = "fail" THEN n.exc ELSE NoExc

\* raise_for_status raising for client errors only.
raise_for_status_ClientOnly(response) ==
    IF 400 <= response.status /\ response.status < 500
    THEN [cls |-> "HTTPError",
          msg |-> ToString(response.status) \o " Client Error",
          response |-> response]
    ELSE NoExc

\* response.raise_for_status(): HTTPError for 400 <= status < 600, with the
\* response attached; nothing for any other status.
raise_for_status(response) ==
    IF 400 <= response.status /\ response.status < 500
    THEN [cls |-> "HTTPError",
          msg |-> ToString(response.status) \o " Client Error",
          response |-> response]
    ELSE IF 500 <= response.status /\ response.status < 600
    THEN [cls |-> "HTTPError",
          msg |-> ToString(response.status) \o " Server Error",
          response |-> response]
    ELSE NoExc

\* response.json(): the decoded body, or JSONDecodeError for a malformed one.
NoValue == [obj |-> FALSE, items |-> <<>>]
response_json(response) ==
    IF ~response.body.wf
    THEN [val |-> NoValue,
          exc |-> Exc("JSONDecodeError", "Expecting value: line 1 column 1 (char 0)")]
    ELSE IF ~response.body.obj
    THEN [val |-> NoValue, exc |-> NoExc]
    ELSE [val |-> [obj |-> TRUE,
                   items |-> DictFromPairs(
                       [i \in 1..Len(response.body.members) |->
                           <<response.body.members[i][1],
                             DecodeValue(response.body.members[i][2])>>])],
          exc |-> NoExc]

-----------------------------------------------------------------------------
(* The two clients.                                                        *)

BaseUrl == "https://consultar.io/api/v1"

\* __init__ of both classes: the headers built from the token.
Headers(api_token) ==
    << <<"Authorization", "Token " \o api_token>>,
       <<"Content-Type", "application/json">> >>

NoRequest == [url |-> "", headers |-> <<>>, params |-> <<>>]

\* What a call of consultar leaves: the value returned (ret, when exc = NoExc),
\* the exception raised, the request sent and the code points executed.
Outcome(ret, e, req, p) == [ret |-> ret, exc |-> e, request |-> req, path |-> p]

\* CnpjStatusMessage without its last branch: a 400 is re-raised unmapped.
CnpjStatusMessage_No400(status) ==
    IF status = 404 THEN "CNPJ não encontrado"
    ELSE IF status = 403 THEN "Erro de autenticação ou plano inativo"
    ELSE ""

\* The message of the ValueError the except clause of CNPJAPI.consultar
\* raises for a status ("" when it re-raises the HTTPError).
CnpjStatusMessage(status) ==
    IF status = 404 THEN "CNPJ não encontrado"
    ELSE IF status = 403 THEN "Erro de autenticação ou plano inativo"
    ELSE IF status = 400 THEN "Requisição inválida"
    ELSE ""

\* The same for CPFAPI.consultar.
CpfStatusMessage(status) ==
    IF status = 404 THEN "CPF não encontrado"
    ELSE IF status = 403 THEN "Erro de autenticação ou plano inativo"
    ELSE IF status = 400 THEN "Requisição inválida"
    ELSE ""

\* The status mapping of class api ("CNPJAPI" or "CPFAPI").
StatusMessage(api, status) ==
    IF api = "CNPJAPI" THEN CnpjStatusMessage(status) ELSE CpfStatusMessage(status)

\* Whether a dict item holds a value other than None.
NotNone(item) == item[2].t # "null"

\* The try body returning the decoded body stripped of its None-valued items.
TryBody_Stripped(n) ==
    LET e0 == requests_get(n)
        e1 == raise_for_status(n.response)
        j == response_json(n.response)
    IN  IF e0 # NoExc
        THEN [exc |-> e0, val |-> NoValue, p |-> <<"requests.get">>]
        ELSE IF e1 # NoExc
        THEN [exc |-> e1, val |-> NoValue, p |-> <<"requests.get", "raise_for_status">>]
        ELSE IF j.exc # NoExc
        THEN [exc |-> j.exc, val |-> NoValue,
              p |-> <<"requests.get", "raise_for_status", "response.json">>]
        ELSE [exc |-> NoExc,
              val |-> [obj |-> j.val.obj, items |-> SelectSeq(j.val.items, NotNone)],
              p |-> <<"requests.get", "raise_for_status", "response.json", "return">>]

\* The try body of consultar (the same three lines in both classes), n being
\* what the GET meets: the exception leaving it (NoExc when it returns), the
\* value it returns and the code points it ran.
TryBody(n) ==
    LET e0 == requests_get(n)
        e1 == raise_for_status(n.response)
        j == response_json(n.response)
    IN  IF e0 # NoExc
        THEN [exc |-> e0, val |-> NoValue, p |-> <<"requests.get">>]
        ELSE IF e1 # NoExc
        THEN [exc |-> e1, val |-> NoValue, p |-> <<"requests.get", "raise_for_status">>]
        ELSE IF j.exc # NoExc
        THEN [exc |-> j.exc, val |-> NoValue,
              p |-> <<"requests.get", "raise_for_status", "response.json">>]
        ELSE [exc |-> NoExc, val |-> j.val,
              p |-> <<"requests.get", "raise_for_status", "response.json", "return">>]

\* The try/except of consultar: req is the request built before the try, api
\* the class.  Only an HTTPError enters the except clause.
TryGet(req, n, api) ==
    LET b == TryBody(n)
    IN  IF b.exc = NoExc
        THEN Outcome(b.val, NoExc, req, b.p)
        ELSE IF ~IsInstance(b.exc, "HTTPError")
        THEN Outcome(NoValue, b.exc, req, b.p)
        ELSE IF n.kind = "fail"
        \* the handler reads response, which the failed assignment never bound
        THEN Outcome(NoValue, Exc("UnboundLocalError", "response"), req,
                     b.p \o <<"except HTTPError">>)
        ELSE IF StatusMessage(api, n.response.status) # ""
        THEN Outcome(NoValue, Exc("ValueError", StatusMessage(api, n.response.status)),
                     req,
                     b.p \o <<"except HTTPError", "response.status_code",
                              "raise ValueError">>)
        ELSE Outcome(NoValue, b.exc, req,
                     b.p \o <<"except HTTPError", "response.status_code", "raise">>)

\* CNPJAPI.consultar(cnpj)
CNPJAPI_consultar(api_token, cnpj, n) ==
    TryGet([url |-> BaseUrl \o "/cnpj/consultar",
            headers |-> Headers(api_token),
            params |-> << <<"cnpj", cnpj>> >>],
           n, "CNPJAPI")

\* CPFAPI.consultar(cpf, data_nascimento)
CPFAPI_consultar(api_token, cpf, data_nascimento, n) ==
    TryGet([url |-> BaseUrl \o "/cpf/consultar",
            headers |-> Headers(api_token),
            params |-> << <<"cpf", cpf>>, <<"data_nascimento", data_nascimento>> >>],
           n, "CPFAPI")

-----------------------------------------------------------------------------
(* Printing.  A printed line is <<label, text>>: the literal part of the   *)
(* f-string and the formatted value; Text is the line as it appears.  A    *)
(* printing function leaves [out, exc]: the lines it printed and the       *)
(* exception that stopped it (NoExc when it ran to its end).               *)

Line(label, text) == <<label, text>>
Text(line) == line[1] \o line[2]

Printed(out, e) == [out |-> out, exc |-> e]

\* The exception of the subscription d[k] on a decoded value (NoExc when it
\* yields a value): TypeError when d is no dict, KeyError when k is absent.
SubscriptExc(d, k) ==
    IF ~d.obj THEN Exc("TypeError", "indices must be integers")
    ELSE IF ~HasKey(d.items, k) THEN Exc("KeyError", "'" \o k \o "'")
    ELSE NoExc

\* print("literal")
PrintLiteral(r, text) ==
    IF r.exc # NoExc THEN r ELSE Printed(Append(r.out, Line(text, "")), NoExc)

\* print(f"label{d[key]}")
PrintField(r, d, label, key) ==
    IF r.exc # NoExc THEN r
    ELSE IF SubscriptExc(d, key) # NoExc THEN Printed(r.out, SubscriptExc(d, key))
    ELSE Printed(Append(r.out, Line(label, Str(Get(d.items, key)))), NoExc)

\* A run of such prints, fields being their <<label, key>> in order: the
\* lines of the fields before the first whose subscription raises, and that
\* exception.
PrintFields(r, d, fields) ==
    IF r.exc # NoExc THEN r
    ELSE LET bad == {i \in 1..Len(fields) : SubscriptExc(d, fields[i][2]) # NoExc}
             stop == IF bad = {} THEN Len(fields) + 1
                     ELSE CHOOSE i \in bad : \A j \in bad : i <= j
         IN  Printed(r.out \o [i \in 1..(stop - 1) |->
                                  Line(fields[i][1], Str(Get(d.items, fields[i][2])))],
                     IF bad = {} THEN NoExc ELSE SubscriptExc(d, fields[stop][2]))

\* cnpj.py lines 67-77
BasicFields ==
    << <<"CNPJ: ", "cnpj_formatado">>,
       <<"Razão Social: ", "razao_social">>,
       <<"Nome Fantasia: ", "nome_fantasia">>,
       <<"Natureza Jurídica: ", "natureza_juridica_descricao">>,
       <<"Capital Social: ", "capital_social_formatado">>,
       <<"Porte: ", "porte_empresa_descricao">>,
       <<"Matriz/Filial: ", "matriz_filial_descricao">>,
       <<"Situação Cadastral: ", "situacao_cadastral_descricao">>,
       <<"Data da Situação: ", "data_situacao_cadastral">>,
       <<"Motivo da Situação: ", "motivo_situacao_cadastral_descricao">>,
       <<"Data de Abertura: ", "data_inicio_atividades">> >>

\* cnpj.py lines 80-87
AddressFields ==
    << <<"Tipo de Logradouro: ", "tipo_logradouro">>,
       <<"Logradouro: ", "logradouro">>,
       <<"Número: ", "numero">>,
       <<"Complemento: ", "complemento">>,
       <<"Bairro: ", "bairro">>,
       <<"Cidade: ", "municipio_descricao">>,
       <<"UF: ", "uf">>,
       <<"CEP: ", "cep">> >>

\* cnpj.py lines 90-98: the three contact pairs, each
\* <<area-code key, number key, area-code label, number label>>
ContactPairs ==
    << <<"ddd1", "telefone1", "DDD: ", "Telefone: ">>,
       <<"ddd2", "telefone2", "DDD 2: ", "Telefone 2: ">>,
       <<"ddd_fax", "fax", "DDD Fax: ", "Fax: ">> >>

\* cnpj.py lines 102-103
PrimaryFields ==
    << <<"Código CNAE: ", "cnae_principal_codigo">>,
       <<"Descrição CNAE: ", "cnae_principal_descricao">> >>

\* cnpj.py lines 108-109
CnaeFields ==
    << <<"Código: ", "codigo">>,
       <<"Descrição: ", "descricao">> >>

\* cnpj.py lines 114-118
SocioFields ==
    << <<"\nSócio: ", "nome_qsa">>,
       <<"Tipo: ", "tipo_qsa_descricao">>,
       <<"CPF/CNPJ: ", "cpf_cnpj_qsa_formatado">>,
       <<"Qualificação: ", "qualificacao_qsa_descricao">>,
       <<"Data de Entrada: ", "data_entrada_qsa">> >>

\* cpf.py lines 78-87
CpfFields ==
    << <<"CPF: ", "cpf">>,
       <<"Nome: ", "nome">>,
       <<"Data de Nascimento: ", "data_nascimento">>,
       <<"Situação: ", "situacao">>,
       <<"Data de Inscrição: ", "data_inscricao">>,
       <<"Dígito Verificador: ", "digito_verificador">>,
       <<"Código de Controle: ", "codigo_controle">>,
       <<"Data de Emissão: ", "data_emissao">>,
       <<"Hora de Emissão: ", "hora_emissao">>,
       <<"QR Code URL: ", "qrcode_url">> >>

\* The test written with "or": one truthy field is enough.
AndTest_Or(d, a, b) ==
    IF SubscriptExc(d, a) # NoExc THEN [exc |-> SubscriptExc(d, a), val |-> FALSE]
    ELSE IF Truthy(Get(d.items, a)) THEN [exc |-> NoExc, val |-> TRUE]
    ELSE IF SubscriptExc(d, b) # NoExc THEN [exc |-> SubscriptExc(d, b), val |-> FALSE]
    ELSE [exc |-> NoExc, val |-> Truthy(Get(d.items, b))]

\* if d[a] and d[b]: evaluated left to right, d[b] only when d[a] is truthy.
\* [exc, val]: the exception of the test, or its truth value.
AndTest(d, a, b) ==
    IF SubscriptExc(d, a) # NoExc THEN [exc |-> SubscriptExc(d, a), val |-> FALSE]
    ELSE IF ~Truthy(Get(d.items, a)) THEN [exc |-> NoExc, val |-> FALSE]
    ELSE IF SubscriptExc(d, b) # NoExc THEN [exc |-> SubscriptExc(d, b), val |-> FALSE]
    ELSE [exc |-> NoExc, val |-> Truthy(Get(d.items, b))]

\* One contact pair: if d[ddd] and d[tel]: print both lines.
PrintContact(r, d, pair) ==
    IF r.exc # NoExc THEN r
    ELSE IF AndTest(d, pair[1], pair[2]).exc # NoExc
    THEN Printed(r.out, AndTest(d, pair[1], pair[2]).exc)
    ELSE IF AndTest(d, pair[1], pair[2]).val
    THEN PrintFields(r, d, << <<pair[3], pair[1]>>, <<pair[4], pair[2]>> >>)
    ELSE r

\* The entry printed without the test of its age bracket.
PrintSocio_AlwaysFaixa(r, socio) ==
    PrintField(PrintFields(r, socio, SocioFields), socio,
               "Faixa Etária: ", "faixa_etaria_qsa_descricao")

\* The six lines of one ownership entry: five fields, then the age
\* bracket if socio["faixa_etaria_qsa_descricao"] is truthy.
PrintSocio(r, socio) ==
    LET r5 == PrintFields(r, socio, SocioFields)
    IN  IF r5.exc # NoExc THEN r5
        ELSE IF SubscriptExc(socio, "faixa_etaria_qsa_descricao") # NoExc
        THEN Printed(r5.out, SubscriptExc(socio, "faixa_etaria_qsa_descricao"))
        ELSE IF Truthy(Get(socio.items, "faixa_etaria_qsa_descricao"))
        THEN PrintField(r5, socio, "Faixa Etária: ", "faixa_etaria_qsa_descricao")
        ELSE r5

\* One secondary activity: its code and its description.
PrintCnae(r, cnae) == PrintFields(r, cnae, CnaeFields)

RECURSIVE ForEachCnae(_, _)
\* for cnae in resultado["lista_cnae_secundarios"]: each entry in turn,
\* stopped by the first exception.
ForEachCnae(r, entries) ==
    IF entries = <<>> \/ r.exc # NoExc THEN r
    ELSE ForEachCnae(PrintCnae(r, [obj |-> TRUE, items |-> entries[1]]),
                     Tail(entries))

RECURSIVE ForEachSocio(_, _)
\* for socio in resultado["lista_qsa"]: each entry in turn, stopped by the
\* first exception.
ForEachSocio(r, entries) ==
    IF entries = <<>> \/ r.exc # NoExc THEN r
    ELSE ForEachSocio(PrintSocio(r, [obj |-> TRUE, items |-> entries[1]]),
                      Tail(entries))

\* The section printing its header without the test of the list.
SectionHead_AlwaysHeader(r, d, key, header) ==
    IF r.exc # NoExc THEN [r |-> r, loop |-> FALSE]
    ELSE IF SubscriptExc(d, key) # NoExc
    THEN [r |-> Printed(r.out, SubscriptExc(d, key)), loop |-> FALSE]
    ELSE [r |-> PrintLiteral(r, header), loop |-> Get(d.items, key).t = "list"]

\* if d[key]: print(header), then the loop over d[key].  [r, loop]: what is
\* printed before the loop, and whether the loop is entered.
SectionHead(r, d, key, header) ==
    IF r.exc # NoExc THEN [r |-> r, loop |-> FALSE]
    ELSE IF SubscriptExc(d, key) # NoExc
    THEN [r |-> Printed(r.out, SubscriptExc(d, key)), loop |-> FALSE]
    ELSE IF ~Truthy(Get(d.items, key)) THEN [r |-> r, loop |-> FALSE]
    ELSE IF Get(d.items, key).t = "str"
    \* iterating a string yields characters, and a character has no fields
    THEN [r |-> Printed(Append(r.out, Line(header, "")),
                        Exc("TypeError", "indices must be integers")),
          loop |-> FALSE]
    ELSE [r |-> PrintLiteral(r, header), loop |-> TRUE]

\* cnpj.py lines 105-109
PrintSecundarios(r, d) ==
    LET h == SectionHead(r, d, "lista_cnae_secundarios", "\nAtividades Secundárias:")
    IN  IF h.loop THEN ForEachCnae(h.r, Get(d.items, "lista_cnae_secundarios").l)
        ELSE h.r

\* cnpj.py lines 111-120
PrintQsa(r, d) ==
    LET h == SectionHead(r, d, "lista_qsa", "\nQuadro Societário:")
    IN  IF h.loop THEN ForEachSocio(h.r, Get(d.items, "lista_qsa").l)
        ELSE h.r

\* format_cnpj_info(resultado), started with nothing printed: its prints in
\* order, ended by the first exception.
format_cnpj_info(d) ==
    LET r0 == Printed(<<>>, NoExc)
        r1 == PrintFields(PrintLiteral(r0, "\nInformações Básicas:"), d, BasicFields)
        r2 == PrintFields(PrintLiteral(r1, "\nEndereço:"), d, AddressFields)
        r3 == PrintLiteral(r2, "\nContato:")
        r4 == PrintContact(r3, d, ContactPairs[1])
        r5 == PrintContact(r4, d, ContactPairs[2])
        r6 == PrintContact(r5, d, ContactPairs[3])
        r7 == PrintField(r6, d, "Email: ", "email")
        r8 == PrintFields(PrintLiteral(r7, "\nAtividade Principal:"), d, PrimaryFields)
        r9 == PrintSecundarios(r8, d)
    IN  IF r1.exc # NoExc THEN r1
        ELSE IF r2.exc # NoExc THEN r2
        ELSE IF r4.exc # NoExc THEN r4
        ELSE IF r5.exc # NoExc THEN r5
        ELSE IF r6.exc # NoExc THEN r6
        ELSE IF r7.exc # NoExc THEN r7
        ELSE IF r8.exc # NoExc THEN r8
        ELSE IF r9.exc # NoExc THEN r9
        ELSE PrintQsa(r9, d)

\* The prints of cpf.py's main after the lookup (lines 77-87)
cpf_print(d) ==
    PrintFields(PrintLiteral(Printed(<<>>, NoExc), "\nResultado da consulta CPF:"),
                d, CpfFields)

-----------------------------------------------------------------------------
(* The environment: the bodies, statuses and failures a run may meet.      *)

Body(members) == [wf |-> TRUE, obj |-> TRUE, members |-> members]
\* a body that is no JSON at all (an HTML error page, an empty body)
MalformedBody == [wf |-> FALSE, obj |-> FALSE, members |-> <<>>]
\* well-formed JSON that is no object (null, a list, a string)
NonObjectBody == [wf |-> TRUE, obj |-> FALSE, members |-> <<>>]
\* the small object an API error response carries
ErrorBody == Body(<< <<"detail", JStr("erro")>> >>)

\* The scalar fields of an organization result other than the contact ones.
CnpjScalars ==
    << <<"cnpj_formatado", JStr("42.515.236/0001-00")>>,
       <<"razao_social", JStr("EMPRESA EXEMPLO LTDA")>>,
       <<"nome_fantasia", JStr("EXEMPLO")>>,
       <<"natureza_juridica_descricao", JStr("Sociedade Empresária Limitada")>>,
       <<"capital_social_formatado", JStr("R$ 10.000,00")>>,
       <<"porte_empresa_descricao", JStr("Micro Empresa")>>,
       <<"matriz_filial_descricao", JStr("Matriz")>>,
       <<"situacao_cadastral_descricao", JStr("Ativa")>>,
       <<"data_situacao_cadastral", JStr("2021-06-30")>>,
       <<"motivo_situacao_cadastral_descricao", JStr("Sem motivo")>>,
       <<"data_inicio_atividades", JStr("2021-06-29")>>,
       <<"tipo_logradouro", JStr("Rua")>>,
       <<"logradouro", JStr("das Flores")>>,
       <<"numero", JStr("100")>>,
       <<"complemento", JNull>>,
       <<"bairro", JStr("Centro")>>,
       <<"municipio_descricao", JStr("São Paulo")>>,
       <<"uf", JStr("SP")>>,
       <<"cep", JStr("01001000")>>,
       <<"email", JStr("contato@exemplo.com.br")>>,
       <<"cnae_principal_codigo", JStr("6201501")>>,
       <<"cnae_principal_descricao", JStr("Desenvolvimento de programas")>> >>

\* The six contact fields, c giving their values in the order below.
ContactMembers(c) ==
    << <<"ddd1", c[1]>>, <<"telefone1", c[2]>>,
       <<"ddd2", c[3]>>, <<"telefone2", c[4]>>,
       <<"ddd_fax", c[5]>>, <<"fax", c[6]>> >>

DddVals == {JNull, JStr(""), JStr("11")}
TelVals == {JNull, JStr(""), JStr("33334444")}
Contacts ==
    {<<d1, t1, d2, t2, d3, t3>> :
        d1 \in DddVals, t1 \in TelVals, d2 \in DddVals, t2 \in TelVals,
        d3 \in DddVals, t3 \in TelVals}
DefaultContact == <<JStr("11"), JStr("33334444"), JStr(""), JStr(""), JNull, JNull>>
\* every area code falsy: the number fields are never read
FalsyDddContact == <<JStr(""), JStr("33334444"), JNull, JStr("33334444"), JStr(""), JNull>>

\* The i-th secondary activity of a list.
CnaeEntry(i) ==
    << <<"codigo", JStr("620230" \o ToString(i))>>,
       <<"descricao", JStr("Atividade " \o ToString(i))>> >>

\* Secondary-activity lists: null, the lists of 0..MaxCnae entries, and the
\* lists whose last entry lacks its description.
CnaeLists ==
    {JNull}
    \cup {JList([i \in 1..n |-> CnaeEntry(i)]) : n \in 0..MaxCnae}
    \cup {JList([i \in 1..n |-> IF i = n THEN SubSeq(CnaeEntry(i), 1, 1)
                                         ELSE CnaeEntry(i)]) : n \in 1..MaxCnae}

\* The age bracket of an ownership entry: the key absent, null, "", or a value.
FaixaOpts == {"absent", "null", "empty", "value"}

\* The i-th ownership entry of a list, its age bracket as f says.
SocioEntry(i, f) ==
    << <<"nome_qsa", JStr("SOCIO " \o ToString(i))>>,
       <<"tipo_qsa_descricao", JStr("Pessoa Física")>>,
       <<"cpf_cnpj_qsa_formatado", JStr("***.000.00" \o ToString(i) \o "-**")>>,
       <<"qualificacao_qsa_descricao", JStr("Sócio-Administrador")>>,
       <<"data_entrada_qsa", JStr("2021-06-29")>> >>
    \o (CASE f = "absent" -> <<>>
          [] f = "null"   -> << <<"faixa_etaria_qsa_descricao", JNull>> >>
          [] f = "empty"  -> << <<"faixa_etaria_qsa_descricao", JStr("")>> >>
          [] f = "value"  -> << <<"faixa_etaria_qsa_descricao", JStr("31 a 40 anos")>> >>)

QsaLists ==
    {JNull}
    \cup UNION {{JList([i \in 1..n |-> SocioEntry(i, f[i])]) : f \in [1..n -> FaixaOpts]}
                : n \in 0..MaxQsa}

DefaultCnae == JList(<<CnaeEntry(1)>>)
DefaultQsa == JList(<<SocioEntry(1, "value")>>)

CnpjMembers(c, cnae, qsa) ==
    CnpjScalars \o ContactMembers(c)
        \o << <<"lista_cnae_secundarios", cnae>>, <<"lista_qsa", qsa>> >>

DefaultCnpjMembers == CnpjMembers(DefaultContact, DefaultCnae, DefaultQsa)

\* members without its i-th member
DropAt(members, i) == SubSeq(members, 1, i - 1) \o SubSeq(members, i + 1, Len(members))
\* members in the opposite order
Reverse(members) == [i \in 1..Len(members) |-> members[Len(members) + 1 - i]]
\* members with a second value for the name of its first member put last
Repeat(members) == Append(members, <<members[1][1], JStr("REPETIDO")>>)

\* Variants of a full set of members: one member missing, another order, a
\* repeated name.
Variants(members) ==
    {DropAt(members, i) : i \in 1..Len(members)}
    \cup {members, Reverse(members), Repeat(members)}

\* The bodies a 2xx organization lookup may carry.
CnpjBodies ==
    {Body(CnpjMembers(c, DefaultCnae, DefaultQsa)) : c \in Contacts}
    \cup {Body(CnpjMembers(DefaultContact, cnae, qsa)) : cnae \in CnaeLists, qsa \in QsaLists}
    \cup {Body(m) : m \in Variants(DefaultCnpjMembers)}
    \cup {Body(m) : m \in Variants(CnpjMembers(FalsyDddContact, DefaultCnae, DefaultQsa))}
    \cup {MalformedBody, NonObjectBody}

DefaultCpfMembers ==
    << <<"cpf", JStr("87135740009")>>,
       <<"nome", JStr("FULANO DE TAL")>>,
       <<"data_nascimento", JStr("1990-01-01")>>,
       <<"situacao", JStr("REGULAR")>>,
       <<"data_inscricao", JStr("2008-03-01")>>,
       <<"digito_verificador", JStr("09")>>,
       <<"codigo_controle", JStr("A1B2.C3D4.E5F6.0789")>>,
       <<"data_emissao", JStr("2024-05-02")>>,
       <<"hora_emissao", JStr("10:20:30")>>,
       <<"qrcode_url", JNull>> >>

\* The bodies a 2xx individual lookup may carry.
CpfBodies ==
    {Body(m) : m \in Variants(DefaultCpfMembers)}
    \cup {MalformedBody, NonObjectBody}

\* Statuses a final response may have: success, the three mapped ones, other
\* client and server errors, and statuses outside 2xx, 4xx and 5xx.
OkStatuses == {200, 201, 299}
MappedStatuses == {404, 403, 400}
OtherErrorStatuses == {401, 402, 429, 499, 500, 503, 599}
OtherStatuses == {101, 199, 300, 304, 399, 600}
Statuses == OkStatuses \cup MappedStatuses \cup OtherErrorStatuses \cup OtherStatuses

\* Failures of the GET below HTTP: no response exists.
NetFailures ==
    {NetFailure("ConnectionError", "Connection refused"),
     NetFailure("ConnectionError", "Name or service not known"),
     NetFailure("ConnectionError", "Connection reset by peer"),
     NetFailure("SSLError", "certificate verify failed"),
     NetFailure("ConnectTimeout", "Connection timed out"),
     NetFailure("ReadTimeout", "Read timed out"),
     NetFailure("ChunkedEncodingError", "Connection broken")}

DefaultBody(s) == IF s = "cnpj" THEN Body(DefaultCnpjMembers) ELSE Body(DefaultCpfMembers)

\* Everything the GET of script s may meet.
NetOutcomes(s) ==
    NetFailures
    \cup {NetResponse(200, b) : b \in IF s = "cnpj" THEN CnpjBodies ELSE CpfBodies}
    \cup {NetResponse(st, b) :
            st \in Statuses, b \in {MalformedBody, NonObjectBody, ErrorBody, DefaultBody(s)}}

-----------------------------------------------------------------------------
(* main of the two scripts.                                                *)

API_TOKEN == "seu-token-aqui"

Init ==
    /\ script \in {"cnpj", "cpf"}
    /\ net \in NetOutcomes(script)
    /\ pc = "main"
    /\ request = NoRequest
    /\ path = <<>>
    /\ resultado = NoValue
    /\ exc = NoExc
    /\ output = <<>>
    /\ traceback = NoExc

\* What main does with the outcome o of the lookup.
AfterConsultar(o) ==
    /\ request' = o.request
    /\ path' = path \o o.path
    /\ resultado' = o.ret
    /\ exc' = o.exc
    /\ pc' = IF o.exc = NoExc THEN "returned" ELSE "raised"
    /\ UNCHANGED <<script, net, output, traceback>>

\* What main does with the result r of the printing named by point.
AfterPrint(r, point) ==
    /\ output' = output \o r.out
    /\ exc' = r.exc
    /\ path' = Append(path, point)
    /\ pc' = IF r.exc = NoExc THEN "done" ELSE "raised"
    /\ UNCHANGED <<script, net, request, resultado, traceback>>

\* cnpj.py main: resultado = cnpj_api.consultar(cnpj)
MainCnpjConsultar ==
    /\ pc = "main"
    /\ script = "cnpj"
    /\ AfterConsultar(CNPJAPI_consultar(API_TOKEN, "42515236000100", net))

\* cpf.py main: resultado = cpf_api.consultar(cpf, data_nascimento)
MainCpfConsultar ==
    /\ pc = "main"
    /\ script = "cpf"
    /\ AfterConsultar(CPFAPI_consultar(API_TOKEN, "87135740009", "1990-01-01", net))

\* cnpj.py main: format_cnpj_info(resultado)
MainFormatCnpj ==
    /\ pc = "returned"
    /\ script = "cnpj"
    /\ AfterPrint(format_cnpj_info(resultado), "format_cnpj_info")

\* cpf.py main: the prints after the lookup
MainCpfPrint ==
    /\ pc = "returned"
    /\ script = "cpf"
    /\ AfterPrint(cpf_print(resultado), "cpf_print")

\* main without its second except clause.
Handler_NoRequestClause(e) ==
    IF IsInstance(e, "ValueError") THEN "except ValueError" ELSE ""

\* main with a first clause that takes every exception.
Handler_CatchAll(e) ==
    IF e # NoExc THEN "except ValueError" ELSE ""

\* main with a first clause that also takes KeyError.
Handler_KeyErrorCaught(e) ==
    IF IsInstance(e, "ValueError") \/ IsInstance(e, "KeyError") THEN "except ValueError"
    ELSE IF IsInstance(e, "RequestException") THEN "except RequestException"
    ELSE ""

\* Which of main's clauses takes exception e: the first that matches, in the
\* order written; "" when none does.
Handler(e) ==
    IF IsInstance(e, "ValueError") THEN "except ValueError"
    ELSE IF IsInstance(e, "RequestException") THEN "except RequestException"
    ELSE ""

\* The first except clause printing with the label of the second.
ExceptValueError_WrongLabel ==
    /\ pc = "raised"
    /\ Handler(exc) = "except ValueError"
    /\ output' = Append(output, Line("Erro na requisição: ", exc.msg))
    /\ path' = Append(path, "except ValueError")
    /\ pc' = "done"
    /\ UNCHANGED <<script, net, request, resultado, exc, traceback>>

\* except ValueError as e: print(f"Erro: {str(e)}")
ExceptValueError ==
    /\ pc = "raised"
    /\ Handler(exc) = "except ValueError"
    /\ output' = Append(output, Line("Erro: ", exc.msg))
    /\ path' = Append(path, "except ValueError")
    /\ pc' = "done"
    /\ UNCHANGED <<script, net, request, resultado, exc, traceback>>

\* except requests.exceptions.RequestException as e:
\*     print(f"Erro na requisição: {str(e)}")
ExceptRequestException ==
    /\ pc = "raised"
    /\ Handler(exc) = "except RequestException"
    /\ output' = Append(output, Line("Erro na requisição: ", exc.msg))
    /\ path' = Append(path, "except RequestException")
    /\ pc' = "done"
    /\ UNCHANGED <<script, net, request, resultado, exc, traceback>>

\* No clause matches: the exception leaves main and the interpreter ends the
\* process with its traceback.
Propagate ==
    /\ pc = "raised"
    /\ Handler(exc) = ""
    /\ traceback' = exc
    /\ path' = Append(path, "traceback")
    /\ pc' = "crashed"
    /\ UNCHANGED <<script, net, request, resultado, exc, output>>

Next ==
    \/ MainCnpjConsultar
    \/ MainCpfConsultar
    \/ MainFormatCnpj
    \/ MainCpfPrint
    \/ ExceptValueError
    \/ ExceptRequestException
    \/ Propagate

Spec == Init /\ [][Next]_vars

-----------------------------------------------------------------------------
(* Properties.                                                             *)

\* code point p has been executed
InPath(p) == \E i \in 1..Len(path) : path[i] = p

\* the lookup of this run has ended (returned or raised)
LookupEnded == pc # "main"
\* the lookup of this run returned a value to main
LookupReturned == InPath("return")
\* the lookup of this run raised; exc is then what it raised, to the end of the run
LookupRaised == LookupEnded /\ ~InPath("return")

GotResponse == net.kind = "response"
Status == net.response.status

ErrorLabels == {"Erro: ", "Erro na requisição: "}
\* the printed lines that are error lines / result lines
ErrorLinesAt == {i \in 1..Len(output) : output[i][1] \in ErrorLabels}
ResultLinesAt == {i \in 1..Len(output) : output[i][1] \notin ErrorLabels}
\* the places where a line with this label is printed
LinesAt(label) == {i \in 1..Len(output) : output[i][1] = label}

\* The message the specification gives each mapped status.
ClassifiedMessage(s, st) ==
    CASE st = 404 -> IF s = "cnpj" THEN "CNPJ não encontrado" ELSE "CPF não encontrado"
      [] st = 403 -> "Erro de autenticação ou plano inativo"
      [] st = 400 -> "Requisição inválida"

\* C1: in both clients, a response with status 404, 403 or 400 makes the lookup
\* raise the classified error of that status (a ValueError with that status's
\* message) and nothing else: it returns no value, raises no other classified
\* error and no transport failure (no RequestException).
C1_MappedStatusRaisesClassified ==
    (LookupEnded /\ GotResponse /\ Status \in {404, 403, 400}) =>
        /\ LookupRaised
        /\ resultado = NoValue
        /\ exc.cls = "ValueError"
        /\ exc.msg = ClassifiedMessage(script, Status)
        /\ ~IsInstance(exc, "RequestException")
        /\ InPath("raise ValueError")

C1_Witness ==
    /\ pc = "raised"
    /\ script = "cpf"
    /\ GotResponse /\ Status = 400
    /\ exc = Exc("ValueError", "Requisição inválida")

\* C2 as claimed: every response whose status is neither 2xx nor 404, 403, 400
\* makes the lookup raise a transport failure carrying the status and body, and
\* return no value.
C2_Original ==
    (LookupEnded /\ GotResponse /\ ~(200 <= Status /\ Status <= 299)
        /\ Status \notin {404, 403, 400}) =>
        /\ LookupRaised
        /\ IsInstance(exc, "RequestException")
        /\ exc.response = net.response

\* C2 amended: a response whose status is in 400..599 and is not 404, 403 or
\* 400 makes the lookup raise an HTTPError (a RequestException, no ValueError)
\* that carries the response, status and body, and return no value; a response
\* whose status is outside 2xx, 4xx and 5xx is no error to the lookup, which
\* decodes its body as it does for a 2xx: it returns the decoded body, or
\* raises the decoding error of a malformed one.
C2_OtherErrorStatusIsTransportFailure ==
    /\ (LookupEnded /\ GotResponse /\ 400 <= Status /\ Status <= 599
           /\ Status \notin {404, 403, 400}) =>
          /\ LookupRaised
          /\ resultado = NoValue
          /\ exc.cls = "HTTPError"
          /\ IsInstance(exc, "RequestException")
          /\ ~IsInstance(exc, "ValueError")
          /\ exc.response = net.response
          /\ exc.response.status = Status
    /\ (LookupEnded /\ GotResponse /\ (Status < 200 \/ (300 <= Status /\ Status < 400)
           \/ Status >= 600)) =>
          /\ InPath("response.json")
          /\ ~InPath("except HTTPError")
          /\ net.response.body.wf => LookupReturned
          /\ ~net.response.body.wf => (LookupRaised /\ exc.cls = "JSONDecodeError")

C2_Witness ==
    /\ pc = "raised"
    /\ GotResponse /\ Status = 503
    /\ exc.cls = "HTTPError"
    /\ exc.response = net.response

\* The names of an object's members, and where a name first / last occurs.
Names(members) == {members[i][1] : i \in 1..Len(members)}
FirstAt(members, k) ==
    CHOOSE i \in 1..Len(members) :
        members[i][1] = k /\ \A j \in 1..(i - 1) : members[j][1] # k
LastAt(members, k) ==
    CHOOSE i \in 1..Len(members) :
        members[i][1] = k /\ \A j \in (i + 1)..Len(members) : members[j][1] # k

\* items has the names of these members, each once, in the order of the text.
SameKeys(items, members) ==
    /\ {items[i][1] : i \in 1..Len(items)} = Names(members)
    /\ \A i, j \in 1..Len(items) : items[i][1] = items[j][1] => i = j
    /\ \A i, j \in 1..Len(items) :
          i < j => FirstAt(members, items[i][1]) < FirstAt(members, items[j][1])
    /\ (Len(members) = Cardinality(Names(members)) =>
          [i \in 1..Len(items) |-> items[i][1]]
              = [i \in 1..Len(members) |-> members[i][1]])

\* items is the mapping an object of scalar members denotes: each name with
\* the value the text gives it.
SameFlatObject(items, members) ==
    /\ SameKeys(items, members)
    /\ \A i \in 1..Len(items) :
          items[i][2] = members[LastAt(members, items[i][1])][2]

\* v is the value m denotes, the objects of a list each as a mapping
SameJson(v, m) ==
    /\ v.t = m.t
    /\ v.s = m.s
    /\ Len(v.l) = Len(m.l)
    /\ \A i \in 1..Len(m.l) : SameFlatObject(v.l[i], m.l[i])

\* items is the mapping the object with these members denotes.
SameObject(items, members) ==
    /\ SameKeys(items, members)
    /\ \A i \in 1..Len(items) :
          SameJson(items[i][2], members[LastAt(members, items[i][1])][2])

\* C3: for a 2xx response whose body is well-formed JSON the lookup raises
\* nothing and returns the decoded body itself: the same fields (none added,
\* removed or renamed), each with the body's value, in the body's order.
C3_SuccessReturnsBodyUnmodified ==
    (LookupEnded /\ GotResponse /\ 200 <= Status /\ Status <= 299
        /\ net.response.body.wf) =>
        /\ LookupReturned
        /\ path[4] = "return"
        /\ ~InPath("except HTTPError")
        /\ pc = "returned" => exc = NoExc
        /\ resultado.obj = net.response.body.obj
        /\ SameObject(resultado.items, net.response.body.members)

C3_Witness ==
    /\ pc = "returned"
    /\ script = "cnpj"
    /\ net = NetResponse(200, Body(Reverse(DefaultCnpjMembers)))
    /\ exc = NoExc
    /\ resultado = [obj |-> TRUE, items |-> Reverse(DefaultCnpjMembers)]

\* C4: when the GET fails below HTTP (no response exists) the lookup raises
\* that failure, a RequestException that is no ValueError: neither the except
\* clause of the lookup nor its status mapping is entered, the response status
\* is never read and no classified error is produced; main takes the failure in
\* its RequestException clause and prints it, and the process does not crash.
C4_NetworkFailureIsTransportFailure ==
    (LookupEnded /\ net.kind = "fail") =>
        /\ LookupRaised
        /\ exc = net.exc
        /\ IsInstance(exc, "RequestException")
        /\ ~IsInstance(exc, "ValueError")
        /\ ~InPath("raise_for_status")
        /\ ~InPath("except HTTPError")
        /\ ~InPath("response.status_code")
        /\ ~InPath("raise ValueError")
        /\ ~InPath("except ValueError")
        /\ pc \in {"raised", "done"}
        /\ traceback = NoExc
        /\ pc = "raised" => (output = <<>> /\ ENABLED ExceptRequestException)
        /\ pc = "done" => output = <<Line("Erro na requisição: ", net.exc.msg)>>

C4_Witness ==
    /\ pc = "done"
    /\ script = "cnpj"
    /\ net = NetFailure("ConnectionError", "Connection refused")
    /\ output = << <<"Erro na requisição: ", "Connection refused">> >>
    /\ path = <<"requests.get", "except RequestException">>

\* C10: end to end, the organization script looks up "42515236000100"; when the
\* response is a 403 its whole output is the one line
\* "Erro: Erro de autenticação ou plano inativo": the formatter is never
\* invoked, no result line is printed, the RequestException clause is not taken
\* and the process does not crash.  In general a classified error with message
\* m raised by the lookup yields exactly the one line "Erro: " followed by m.
C10_ClassifiedErrorIsTheWholeOutput ==
    /\ (script = "cnpj" /\ LookupEnded) =>
          /\ request.url = "https://consultar.io/api/v1/cnpj/consultar"
          /\ request.params = << <<"cnpj", "42515236000100">> >>
    /\ (script = "cnpj" /\ GotResponse /\ Status = 403) =>
          /\ pc \in {"main", "raised", "done"}
          /\ ~InPath("format_cnpj_info")
          /\ ~InPath("except RequestException")
          /\ ResultLinesAt = {}
          /\ pc # "done" => output = <<>>
          /\ pc = "raised" => ENABLED ExceptValueError
          /\ pc = "done" =>
                /\ Len(output) = 1
                /\ Text(output[1]) = "Erro: Erro de autenticação ou plano inativo"
    /\ (LookupRaised /\ exc.cls = "ValueError") =>
          /\ pc \in {"raised", "done"}
          /\ pc # "done" => output = <<>>
          /\ pc = "done" => output = <<Line("Erro: ", exc.msg)>>

C10_Witness ==
    /\ pc = "done"
    /\ script = "cnpj"
    /\ GotResponse /\ Status = 403
    /\ request.params = << <<"cnpj", "42515236000100">> >>
    /\ Len(output) = 1
    /\ Text(output[1]) = "Erro: Erro de autenticação ou plano inativo"

\* The errors the lookup classifies, and the generic transport failures.
Classified(e) ==
    /\ e.cls = "ValueError"
    /\ e.msg \in {"CNPJ não encontrado", "CPF não encontrado",
                  "Erro de autenticação ou plano inativo", "Requisição inválida"}
Transport(e) ==
    e.cls \in {"HTTPError", "ConnectionError", "SSLError", "ConnectTimeout",
               "ReadTimeout", "ChunkedEncodingError"}

Ended == pc \in {"done", "crashed"}

\* C5 as claimed: an exception that is neither a classified error nor a
\* transport failure (the decoding error of a malformed 2xx body, a field
\* missing during formatting) leaves main unhandled: no error line is printed
\* and the process ends with the raw diagnostic.
C5_Original ==
    (Ended /\ exc # NoExc /\ ~Classified(exc) /\ ~Transport(exc)) =>
        /\ pc = "crashed"
        /\ ErrorLinesAt = {}
        /\ traceback = exc

\* C5 amended: main catches and prints exactly the ValueErrors (the classified
\* errors, and also the decoding error of a malformed JSON body, which is a
\* ValueError) and the RequestExceptions; every other exception is fatal.  A
\* 2xx response whose body is malformed JSON is caught and printed as the one
\* line "Erro: " followed by the decoder's message; a field missing during
\* formatting propagates unhandled through main: no "Erro: " and no
\* "Erro na requisição: " line is printed for it and the process ends with the
\* raw diagnostic.
C5_OnlyValueErrorAndRequestExceptionCaught ==
    /\ ErrorLinesAt # {} => (pc = "done" /\ exc # NoExc)
    /\ (pc = "done" /\ exc # NoExc) =>
          /\ IsInstance(exc, "ValueError") \/ IsInstance(exc, "RequestException")
          /\ ErrorLinesAt = {Len(output)}
          /\ output[Len(output)] =
                Line(IF IsInstance(exc, "ValueError") THEN "Erro: "
                     ELSE "Erro na requisição: ", exc.msg)
          /\ traceback = NoExc
    /\ pc = "crashed" =>
          /\ ~IsInstance(exc, "ValueError")
          /\ ~IsInstance(exc, "RequestException")
          /\ traceback = exc
    /\ (pc = "raised" /\ ~IsInstance(exc, "ValueError")
           /\ ~IsInstance(exc, "RequestException")) =>
          /\ ENABLED Propagate
          /\ ~ENABLED ExceptValueError
          /\ ~ENABLED ExceptRequestException
    /\ (LookupEnded /\ GotResponse /\ 200 <= Status /\ Status <= 299
           /\ ~net.response.body.wf) =>
          /\ exc.cls = "JSONDecodeError"
          /\ pc \in {"raised", "done"}
          /\ pc = "raised" => ENABLED ExceptValueError
          /\ pc = "done" => output = <<Line("Erro: ", exc.msg)>>
    /\ exc.cls \in {"KeyError", "TypeError"} =>
          /\ InPath("format_cnpj_info") \/ InPath("cpf_print")
          /\ pc \in {"raised", "crashed"}
          /\ ErrorLinesAt = {}

C5_Witness ==
    /\ pc = "crashed"
    /\ script = "cpf"
    /\ traceback = Exc("KeyError", "'nome'")
    /\ output = << <<"\nResultado da consulta CPF:", "">>, <<"CPF: ", "87135740009">> >>

\* The labels of the lines every complete result of script s has, in order.
UnconditionalLabels(s) ==
    IF s = "cpf"
    THEN <<"\nResultado da consulta CPF:">> \o [i \in 1..Len(CpfFields) |-> CpfFields[i][1]]
    ELSE <<"\nInformações Básicas:">> \o [i \in 1..Len(BasicFields) |-> BasicFields[i][1]]
         \o <<"\nEndereço:">> \o [i \in 1..Len(AddressFields) |-> AddressFields[i][1]]
         \o <<"\nContato:", "Email: ", "\nAtividade Principal:">>
         \o [i \in 1..Len(PrimaryFields) |-> PrimaryFields[i][1]]

IsUnconditional(line) ==
    \E i \in 1..Len(UnconditionalLabels(script)) : UnconditionalLabels(script)[i] = line[1]

\* every line a complete result always has is printed, once, in order
CompleteResult ==
    [i \in 1..Len(SelectSeq(output, IsUnconditional)) |->
        SelectSeq(output, IsUnconditional)[i][1]] = UnconditionalLabels(script)

\* C6 as claimed: every run ends having printed either the complete formatted
\* result and no error, or exactly one error line and no result line.
C6_Original ==
    Ended =>
        \/ (exc = NoExc /\ ErrorLinesAt = {} /\ CompleteResult)
        \/ (exc # NoExc /\ Len(output) = 1 /\ ErrorLinesAt = {1})

\* C6 amended: no run prints both result lines and an error line, and none
\* prints two error lines.  A run that ends normally has printed either the
\* complete formatted result and no error line, or, the lookup having raised,
\* exactly one error line and no result line.  A run in which the formatting
\* raises (a field missing from the result, or a result that is no mapping) has
\* printed the result lines preceding the failing access and no error line, and
\* ends with the unhandled exception.
C6_ResultOrOneErrorLineUnlessFormattingFails ==
    /\ ~(ResultLinesAt # {} /\ ErrorLinesAt # {})
    /\ Cardinality(ErrorLinesAt) <= 1
    /\ pc = "done" =>
          \/ (exc = NoExc /\ LookupReturned /\ ErrorLinesAt = {} /\ CompleteResult)
          \/ (exc # NoExc /\ LookupRaised /\ Len(output) = 1 /\ ErrorLinesAt = {1})
    /\ pc = "crashed" =>
          /\ LookupReturned
          /\ exc.cls \in {"KeyError", "TypeError"}
          /\ traceback = exc
          /\ ErrorLinesAt = {}
          /\ Len(output) >= 1
          /\ output[1][1] = UnconditionalLabels(script)[1]
          /\ \A i \in 1..Len(SelectSeq(output, IsUnconditional)) :
                SelectSeq(output, IsUnconditional)[i][1] = UnconditionalLabels(script)[i]

C6_Witness ==
    /\ pc = "crashed"
    /\ script = "cnpj"
    /\ traceback = Exc("KeyError", "'email'")
    /\ Len(output) > 1
    /\ ErrorLinesAt = {}
    /\ ~CompleteResult

\* the place of the only line with this label
LineAt(label) == CHOOSE i \in LinesAt(label) : TRUE
\* the place of the n-th line with this label
NthLineAt(label, n) ==
    CHOOSE i \in LinesAt(label) : Cardinality({j \in LinesAt(label) : j < i}) = n - 1

\* the value of a key of the result, and of a key of an entry of one of its lists
Field(k) == Get(resultado.items, k)
HasField(k) == HasKey(resultado.items, k)

\* both fields of contact pair p are there and truthy
BothTruthy(p) ==
    /\ HasField(ContactPairs[p][1]) /\ Truthy(Field(ContactPairs[p][1]))
    /\ HasField(ContactPairs[p][2]) /\ Truthy(Field(ContactPairs[p][2]))

\* format_cnpj_info has printed the whole contact block
ContactPrinted ==
    script = "cnpj" /\ InPath("format_cnpj_info") /\ LinesAt("Email: ") # {}

\* C7: for each of the three contact pairs, independently of the other two,
\* format_cnpj_info prints the pair's two lines if and only if both its area
\* code and its number are truthy: then the area-code line comes immediately
\* before the number line, inside the contact block; when either field is
\* empty or null neither line of the pair is printed.
C7_ContactPairPrintedIffBothTruthy ==
    ContactPrinted =>
        /\ \A p \in 1..3 :
              IF BothTruthy(p)
              THEN /\ Cardinality(LinesAt(ContactPairs[p][3])) = 1
                   /\ LinesAt(ContactPairs[p][4]) = {LineAt(ContactPairs[p][3]) + 1}
                   /\ output[LineAt(ContactPairs[p][3])] =
                         Line(ContactPairs[p][3], Field(ContactPairs[p][1]).s)
                   /\ output[LineAt(ContactPairs[p][3]) + 1] =
                         Line(ContactPairs[p][4], Field(ContactPairs[p][2]).s)
                   /\ LineAt("\nContato:") < LineAt(ContactPairs[p][3])
                   /\ LineAt(ContactPairs[p][3]) + 1 < LineAt("Email: ")
              ELSE /\ LinesAt(ContactPairs[p][3]) = {}
                   /\ LinesAt(ContactPairs[p][4]) = {}
        /\ \A p, q \in 1..3 :
              (p < q /\ BothTruthy(p) /\ BothTruthy(q)) =>
                  LineAt(ContactPairs[p][3]) < LineAt(ContactPairs[q][3])
        /\ LineAt("Email: ") - LineAt("\nContato:") - 1
              = 2 * Cardinality({p \in 1..3 : BothTruthy(p)})

C7_Witness ==
    /\ pc = "done"
    /\ ContactPrinted
    /\ Field("ddd1") = JStr("11") /\ Field("telefone1") = JStr("33334444")
    /\ Field("ddd2") = JStr("11") /\ Field("telefone2") = JNull
    /\ Field("ddd_fax") = JStr("11") /\ Field("fax") = JStr("33334444")
    /\ SubSeq(output, LineAt("\nContato:"), LineAt("Email: ") - 1) =
          << <<"\nContato:", "">>, <<"DDD: ", "11">>, <<"Telefone: ", "33334444">>,
             <<"DDD Fax: ", "11">>, <<"Fax: ", "33334444">> >>

\* format_cnpj_info has run to its end
FormatCompleted == script = "cnpj" /\ pc = "done" /\ exc = NoExc

\* the entries of a list field of the result (none when it is null)
Entries(k) == Field(k).l

\* C8: format_cnpj_info prints the "Atividades Secundárias" header if and only
\* if the secondary-activity sequence is non-empty and the "Quadro Societário"
\* header if and only if the ownership sequence is non-empty; a sequence of n
\* entries is printed as the header, once, followed by n entry blocks in the
\* order of the sequence (n code/description pairs for the secondary
\* activities); the primary activity's code and description are always
\* printed.
C8_SectionsPrintedIffNonEmpty ==
    FormatCompleted =>
        /\ Cardinality(LinesAt("Código CNAE: ")) = 1
        /\ output[LineAt("Código CNAE: ")] =
              Line("Código CNAE: ", Str(Field("cnae_principal_codigo")))
        /\ output[LineAt("Código CNAE: ") + 1] =
              Line("Descrição CNAE: ", Str(Field("cnae_principal_descricao")))
        /\ Cardinality(LinesAt("Descrição CNAE: ")) = 1
        /\ Cardinality(LinesAt("\nAtividades Secundárias:")) =
              (IF Entries("lista_cnae_secundarios") # <<>> THEN 1 ELSE 0)
        /\ Cardinality(LinesAt("Código: ")) = Len(Entries("lista_cnae_secundarios"))
        /\ Cardinality(LinesAt("Descrição: ")) = Len(Entries("lista_cnae_secundarios"))
        /\ \A j \in 1..Len(Entries("lista_cnae_secundarios")) :
              /\ output[LineAt("\nAtividades Secundárias:") + 2 * j - 1] =
                    Line("Código: ",
                         Str(Get(Entries("lista_cnae_secundarios")[j], "codigo")))
              /\ output[LineAt("\nAtividades Secundárias:") + 2 * j] =
                    Line("Descrição: ",
                         Str(Get(Entries("lista_cnae_secundarios")[j], "descricao")))
        /\ Cardinality(LinesAt("\nQuadro Societário:")) =
              (IF Entries("lista_qsa") # <<>> THEN 1 ELSE 0)
        /\ \A f \in 1..Len(SocioFields) :
              /\ Cardinality(LinesAt(SocioFields[f][1])) = Len(Entries("lista_qsa"))
              /\ \A j \in 1..Len(Entries("lista_qsa")) :
                    output[NthLineAt("\nSócio: ", j) + f - 1] =
                        Line(SocioFields[f][1],
                             Str(Get(Entries("lista_qsa")[j], SocioFields[f][2])))
        /\ Entries("lista_qsa") # <<>> =>
              /\ NthLineAt("\nSócio: ", 1) = LineAt("\nQuadro Societário:") + 1
              /\ LineAt("\nQuadro Societário:") =
                    LineAt("Descrição CNAE: ")
                        + (IF Entries("lista_cnae_secundarios") # <<>>
                           THEN 2 + 2 * Len(Entries("lista_cnae_secundarios")) ELSE 1)
        /\ Entries("lista_qsa") = <<>> =>
              Len(output) = LineAt("Descrição CNAE: ")
                        + (IF Entries("lista_cnae_secundarios") # <<>>
                           THEN 1 + 2 * Len(Entries("lista_cnae_secundarios")) ELSE 0)

C8_Witness ==
    /\ FormatCompleted
    /\ Len(Entries("lista_cnae_secundarios")) = 2
    /\ Field("lista_qsa") = JList(<<>>)
    /\ SubSeq(output, LineAt("Descrição CNAE: ") + 1, Len(output)) =
          << <<"\nAtividades Secundárias:", "">>,
             <<"Código: ", "6202301">>, <<"Descrição: ", "Atividade 1">>,
             <<"Código: ", "6202302">>, <<"Descrição: ", "Atividade 2">> >>

\* The keys format_cnpj_info reads from the result itself.
TopKeys ==
    {BasicFields[i][2] : i \in 1..Len(BasicFields)}
    \cup {AddressFields[i][2] : i \in 1..Len(AddressFields)}
    \cup {ContactPairs[i][1] : i \in 1..Len(ContactPairs)}
    \cup {ContactPairs[i][2] : i \in 1..Len(ContactPairs)}
    \cup {PrimaryFields[i][2] : i \in 1..Len(PrimaryFields)}
    \cup {"email", "lista_cnae_secundarios", "lista_qsa"}

\* format_cnpj_info has been called on a result that lacks nothing, except
\* possibly the age bracket of some ownership entries.
FormattedAllButFaixa ==
    /\ script = "cnpj"
    /\ InPath("format_cnpj_info")
    /\ resultado.obj
    /\ TopKeys \subseteq Keys(resultado.items)
    /\ \A k \in {"lista_cnae_secundarios", "lista_qsa"} : Field(k).t \in {"null", "list"}
    /\ \A j \in 1..Len(Entries("lista_cnae_secundarios")) :
          {CnaeFields[f][2] : f \in 1..Len(CnaeFields)}
              \subseteq Keys(Entries("lista_cnae_secundarios")[j])
    /\ \A j \in 1..Len(Entries("lista_qsa")) :
          {SocioFields[f][2] : f \in 1..Len(SocioFields)}
              \subseteq Keys(Entries("lista_qsa")[j])

Faixa == "faixa_etaria_qsa_descricao"
\* the ownership entries from which the age bracket is absent / in which it is
\* present and truthy
FaixaAbsent == {j \in 1..Len(Entries("lista_qsa")) : ~HasKey(Entries("lista_qsa")[j], Faixa)}
FaixaTruthy ==
    {j \in 1..Len(Entries("lista_qsa")) :
        HasKey(Entries("lista_qsa")[j], Faixa) /\ Truthy(Get(Entries("lista_qsa")[j], Faixa))}
\* the j-th entry's block is not followed by an age-bracket line
NoFaixaLineAfter(j) ==
    \/ NthLineAt("\nSócio: ", j) + Len(SocioFields) > Len(output)
    \/ output[NthLineAt("\nSócio: ", j) + Len(SocioFields)][1] = "\nSócio: "

\* C9 as claimed: an ownership entry without an age-bracket value, the field
\* absent from the entry or null or empty, is printed as its five other lines
\* with no "Faixa Etária" line, and format_cnpj_info goes on to the next entry
\* without failing.
C9_Original ==
    FormattedAllButFaixa =>
        /\ exc = NoExc
        /\ Cardinality(LinesAt("\nSócio: ")) = Len(Entries("lista_qsa"))
        /\ Cardinality(LinesAt("Faixa Etária: ")) = Cardinality(FaixaTruthy)
        /\ \A j \in 1..Len(Entries("lista_qsa")) : j \notin FaixaTruthy => NoFaixaLineAfter(j)

\* C9 amended: an ownership entry whose age-bracket field is present and null
\* or empty is printed as its five other lines with no "Faixa Etária" line, and
\* format_cnpj_info goes on to the next entry; an entry whose age bracket is
\* truthy gets the "Faixa Etária" line after its five lines; an entry from
\* which the field is absent is printed as its five lines, and then
\* format_cnpj_info fails with KeyError: no "Faixa Etária" line and no further
\* entry is printed.
C9_FaixaPrintedIfTruthyAbsentFails ==
    FormattedAllButFaixa =>
        LET m == Len(Entries("lista_qsa"))
            \* the entries printed: up to the first that lacks the field
            shown == IF FaixaAbsent = {} THEN m
                     ELSE CHOOSE j \in FaixaAbsent : \A i \in FaixaAbsent : j <= i
        IN  /\ (exc = NoExc) <=> (FaixaAbsent = {})
            /\ FaixaAbsent # {} =>
                  /\ exc = Exc("KeyError", "'faixa_etaria_qsa_descricao'")
                  /\ Len(output) = NthLineAt("\nSócio: ", shown) + Len(SocioFields) - 1
            /\ Cardinality(LinesAt("\nSócio: ")) = shown
            /\ Cardinality(LinesAt("Faixa Etária: "))
                  = Cardinality({j \in FaixaTruthy : j <= shown})
            /\ \A j \in 1..shown :
                  /\ \A f \in 1..Len(SocioFields) :
                        output[NthLineAt("\nSócio: ", j) + f - 1] =
                            Line(SocioFields[f][1],
                                 Str(Get(Entries("lista_qsa")[j], SocioFields[f][2])))
                  /\ IF j \in FaixaTruthy
                     THEN output[NthLineAt("\nSócio: ", j) + Len(SocioFields)] =
                              Line("Faixa Etária: ", Get(Entries("lista_qsa")[j], Faixa).s)
                     ELSE NoFaixaLineAfter(j)

C9_Witness ==
    /\ pc = "done"
    /\ FormattedAllButFaixa
    /\ Len(Entries("lista_qsa")) = 2
    /\ Get(Entries("lista_qsa")[1], Faixa) = JNull
    /\ Get(Entries("lista_qsa")[2], Faixa) = JStr("31 a 40 anos")
    /\ SubSeq(output, LineAt("\nQuadro Societário:"), Len(output)) =
          << <<"\nQuadro Societário:", "">>,
             <<"\nSócio: ", "SOCIO 1">>, <<"Tipo: ", "Pessoa Física">>,
             <<"CPF/CNPJ: ", "***.000.001-**">>,
             <<"Qualificação: ", "Sócio-Administrador">>,
             <<"Data de Entrada: ", "2021-06-29">>,
             <<"\nSócio: ", "SOCIO 2">>, <<"Tipo: ", "Pessoa Física">>,
             <<"CPF/CNPJ: ", "***.000.002-**">>,
             <<"Qualificação: ", "Sócio-Administrador">>,
             <<"Data de Entrada: ", "2021-06-29">>,
             <<"Faixa Etária: ", "31 a 40 anos">> >>

=============================================================================
